---- MODULE Spec2Model ----
(***************************************************************************)
(* The accounts service (src/src/index.js): an in-memory ledger of         *)
(* accounts and balances behind six HTTP handlers, two of which await      *)
(* calls to the identity and catalog services.  Node runs each handler     *)
(* without interruption up to its next await, so each action below is one  *)
(* such run-to-completion segment.                                         *)
(***************************************************************************)
EXTENDS Integers, Sequences, FiniteSets, TLC

\* ------------------------------------------------------------------ bounds
MaxAccounts == 2      \* accounts created in one run
MaxBal == 1           \* |balance| of a finite balance
MaxAmt == 1           \* |amount| of a finite credit
MaxSlots == 2         \* requests in flight at once
MaxTime == 0          \* distinct readings of the wall clock

\* ------------------------------------------------------ JavaScript values
\* A JavaScript value as the handlers see it after JSON.parse: a finite
\* integer, an infinity (JSON.parse("1e999")), NaN (only ever the result of
\* an addition), undefined (a missing field), null, or some non-numeric,
\* truthy value (a non-empty string, true, an object).
Num(n) == [tag |-> "int", num |-> n]
PosInf == [tag |-> "inf", num |-> 0]
NegInf == [tag |-> "ninf", num |-> 0]
NaN == [tag |-> "nan", num |-> 0]
Undefined == [tag |-> "undefined", num |-> 0]
Null == [tag |-> "null", num |-> 0]
Str == [tag |-> "string", num |-> 0]

\* typeof v === "number"
TypeofNumber(v) == v.tag \in {"int", "inf", "ninf", "nan"}

\* Number.isNaN(v)
IsNaN(v) == v.tag = "nan"

\* the truthiness of v, as || and ! see it
Truthy(v) ==
    CASE v.tag = "int" -> v.num # 0
      [] v.tag \in {"inf", "ninf", "string"} -> TRUE
      [] OTHER -> FALSE

\* v || 0
OrZero(v) == IF Truthy(v) THEN v ELSE Num(0)

\* a + b: IEEE 754 on the numbers modelled; with a string, the concatenation
\* (some string); undefined counts as NaN and null as 0
JsAdd(a, b) ==
    CASE a.tag = "string" \/ b.tag = "string" -> Str
      [] a.tag = "undefined" \/ b.tag = "undefined" -> NaN
      [] a.tag = "nan" \/ b.tag = "nan" -> NaN
      [] a.tag = "inf" /\ b.tag = "ninf" -> NaN
      [] a.tag = "ninf" /\ b.tag = "inf" -> NaN
      [] a.tag = "inf" \/ b.tag = "inf" -> PosInf
      [] a.tag = "ninf" \/ b.tag = "ninf" -> NegInf
      [] OTHER -> Num(a.num + b.num)

\* a number as res.json() writes it: JSON.stringify turns NaN and the
\* infinities into null
JsonNumber(v) == IF v.tag \in {"inf", "ninf", "nan"} THEN Null ELSE v

\* ------------------------------------------------------------ input sets
NoUser == "<undefined>"
UserIds == {"u1", "u2"}
NoType == "<undefined>"
Types == {"standard", "premium"}
NoProduct == "<undefined>"
ProductIds == {"p1", "unknown-x"}
Times == 0..MaxTime
AccountIds == 1..(MaxAccounts + 1)
FiniteAmounts == {Num(n) : n \in (0 - MaxAmt)..MaxAmt}
\* the values a JSON body can give the field amount or initialCredit
JsonValues == FiniteAmounts \cup {PosInf, NegInf, Undefined, Str}
\* the values of initialCredit the model tries
InitialCredits == {Undefined, Num(1), PosInf, Null, Str}
\* an initial credit or none
FewCredits == {Undefined, Num(1)}
Slots == 1..MaxSlots

\* ----------------------------------------------------------------- state
VARIABLES accountsById, accountsByUserId, balancesByAccountId, accountCounter,
          creditSum, reqs, lastResp

vars == <<accountsById, accountsByUserId, balancesByAccountId, accountCounter,
          creditSum, reqs, lastResp>>

\* the four module-level variables of the ledger, as one value
Ledger ==
    [byId |-> accountsById, byUser |-> accountsByUserId,
     bal |-> balancesByAccountId, counter |-> accountCounter]

\* Map.prototype.set
MapSet(m, key, v) == (key :> v) @@ m

\* balancesByAccountId.get(id): undefined for a missing key
BalanceGet(L, id) == IF id \in DOMAIN L.bal THEN L.bal[id] ELSE Undefined

\* accountsByUserId.get(userId) || []
UserList(L, userId) ==
    IF userId \in DOMAIN L.byUser THEN L.byUser[userId] ELSE <<>>

\* new Map()
EmptyMap == [key \in {} |-> Undefined]

\* ---------------------------------------------------------------- ledger
\* createAccount with the user's list replaced instead of extended
createAccountNewList(L, userId, type, t) ==
    LET id == L.counter
        account == [id |-> id, userId |-> userId, type |-> type, createdAt |-> t]
    IN  [byId |-> MapSet(L.byId, id, account),
         byUser |-> MapSet(L.byUser, userId, <<account>>),
         bal |-> MapSet(L.bal, id, Num(0)),
         counter |-> L.counter + 1]

\* createAccount with the account put first in the user's list
createAccountUnshift(L, userId, type, t) ==
    LET id == L.counter
        account == [id |-> id, userId |-> userId, type |-> type, createdAt |-> t]
    IN  [byId |-> MapSet(L.byId, id, account),
         byUser |-> MapSet(L.byUser, userId, <<account>> \o UserList(L, userId)),
         bal |-> MapSet(L.bal, id, Num(0)),
         counter |-> L.counter + 1]

\* createAccount with accountCounter read but not incremented
createAccountSameId(L, userId, type, t) ==
    LET id == L.counter
        account == [id |-> id, userId |-> userId, type |-> type, createdAt |-> t]
    IN  [byId |-> MapSet(L.byId, id, account),
         byUser |-> MapSet(L.byUser, userId, Append(UserList(L, userId), account)),
         bal |-> MapSet(L.bal, id, Num(0)),
         counter |-> L.counter]

\* createAccount({ userId, type }) at wall-clock reading t; the new account
\* is the entry of byId under the old counter
createAccount(L, userId, type, t) ==
    LET id == L.counter
        account == [id |-> id, userId |-> userId, type |-> type, createdAt |-> t]
    IN  [byId |-> MapSet(L.byId, id, account),
         byUser |-> MapSet(L.byUser, userId, Append(UserList(L, userId), account)),
         bal |-> MapSet(L.bal, id, Num(0)),
         counter |-> L.counter + 1]

\* the value applyCredit(accountId, amount) returns
creditResult(L, accountId, amount) ==
    JsAdd(OrZero(BalanceGet(L, accountId)), amount)

\* applyCredit(accountId, amount)
applyCredit(L, accountId, amount) ==
    [L EXCEPT !.bal = MapSet(L.bal, accountId, creditResult(L, accountId, amount))]

\* ----------------------------------------------------- downstream client
\* A downstream response: fetch() rejected (net), or a status and a body.
\* A body is empty, not JSON ("garbage"), the JSON value null, or a JSON
\* object that may carry a truthy error field and an entity (user or
\* assignment), wrapped under its own key or not, whose id is id.
NoId == "<undefined>"
EmptyBody == [kind |-> "empty", error |-> FALSE, wrapped |-> FALSE, id |-> NoId]
GarbageBody == [kind |-> "garbage", error |-> FALSE, wrapped |-> FALSE, id |-> NoId]
NullBody == [kind |-> "null", error |-> FALSE, wrapped |-> FALSE, id |-> NoId]
EmptyObject == [kind |-> "object", error |-> FALSE, wrapped |-> FALSE, id |-> NoId]
ObjectBodies(ids) ==
    {[kind |-> "object", error |-> TRUE, wrapped |-> FALSE, id |-> NoId]} \cup
    {[kind |-> "object", error |-> FALSE, wrapped |-> w, id |-> i] :
        w \in BOOLEAN, i \in ids \cup {NoId}}
Bodies(ids) == {EmptyBody, GarbageBody, NullBody} \cup ObjectBodies(ids)
Statuses == {200, 404, 503}
Unreachable == [net |-> TRUE, status |-> 0, body |-> EmptyBody]
Responses(ids) ==
    {Unreachable} \cup
    {[net |-> FALSE, status |-> s, body |-> b] : s \in Statuses, b \in Bodies(ids)}

\* res.ok
ResOk(status) == status >= 200 /\ status <= 299

\* the two ways fetchJson ends; status 0 is an error without a status field
Throw(status) == [threw |-> TRUE, status |-> status, data |-> NullBody]
Return(data) == [threw |-> FALSE, status |-> 0, data |-> data]

\* fetchJson with JSON.parse(text) for every text: the empty one does not parse
fetchJsonParseAlways(resp) ==
    IF resp.net THEN Throw(0)
    ELSE IF resp.body.kind \in {"garbage", "empty"} THEN Throw(0)
    ELSE IF ~ResOk(resp.status)
         THEN IF resp.body.kind = "null" THEN Throw(0) ELSE Throw(resp.status)
         ELSE Return(resp.body)

\* fetchJson(url, options), given the response the network delivers
fetchJson(resp) ==
    IF resp.net THEN Throw(0)
    ELSE IF resp.body.kind = "garbage" THEN Throw(0)
    ELSE LET data == IF resp.body.kind = "empty" THEN EmptyObject ELSE resp.body
         IN  IF ~ResOk(resp.status)
             THEN IF data.kind = "null" THEN Throw(0) ELSE Throw(resp.status)
             ELSE Return(data)

\* err.status, without the default
ErrStatusNoDefault(r) == r.status

\* err.status || 500
ErrStatus(r) == IF r.status # 0 THEN r.status ELSE 500

\* ------------------------------------------------------ mock collaborators
\* String.prototype.startsWith("unknown") on the ids the model uses
UnknownUser == "unknown-u"
StartsWithUnknown(id) == id \in {"unknown-u", "unknown-x"}

\* sendJson(res, statusCode, data) with data an { error } object
ErrorResponse(status) ==
    [net |-> FALSE, status |-> status,
     body |-> [kind |-> "object", error |-> TRUE, wrapped |-> FALSE, id |-> NoId]]

\* sendJson(res, statusCode, data) with data an entity under its own key
EntityResponse(status, id) ==
    [net |-> FALSE, status |-> status,
     body |-> [kind |-> "object", error |-> FALSE, wrapped |-> TRUE, id |-> id]]

\* catalogServer, POST /products/:productId/assign with body { accountId }
\* (accountId 0: missing)
catalogServer(productId, accountId) ==
    IF StartsWithUnknown(productId) THEN ErrorResponse(404)
    ELSE IF accountId = 0 THEN ErrorResponse(400)
    ELSE EntityResponse(200, productId)

\* identityServer, GET /users/:userId
identityGetUser(userId) ==
    IF StartsWithUnknown(userId) THEN ErrorResponse(404)
    ELSE EntityResponse(200, userId)

\* identityServer, POST /users with a name and an email: the responses it
\* can give, the new user's id being one of ids
identityCreateUser(ids) == {EntityResponse(201, id) : id \in ids}

\* --------------------------------------------------------------- requests
\* One slot per request an async handler is serving: the handler (op),
\* where it is suspended (pc), its inputs, the account it created (0:
\* none), and how many downstream calls of each kind it has issued.  name and
\* email say whether the body has a truthy field of that name.
IdleSlot ==
    [op |-> "none", pc |-> "idle", userId |-> NoUser, type |-> NoType,
     name |-> FALSE, email |-> FALSE,
     productId |-> NoProduct, initialCredit |-> Undefined, account |-> 0,
     createUserCalls |-> 0, fetchUserCalls |-> 0, assignCalls |-> 0]

\* What the last step did at the service's boundary.  A response: the
\* handler that sent it, its status, the account, balance and amount it is
\* about, the step that failed, the downstream calls the request issued and,
\* for a request that failed validation, the fields its body had.  A
\* downstream response received: its status (0: fetch rejected), body kind
\* and the id of the entity in it; status 0 then says that the handler has
\* not answered yet.  body is the shape of the response's body: "json" (an
\* object the handler built), "error" (an object with an error string),
\* "html" (a page Express built), "none" (no response).  assignment is the
\* productId of the assignment an onboarding response carries.
\* NoResp: the last step neither answered nor received.
NoResp ==
    [op |-> "none", status |-> 0, account |-> 0, userId |-> NoUser,
     type |-> NoType, name |-> FALSE, email |-> FALSE, productId |-> NoProduct,
     balance |-> Undefined, amount |-> Undefined,
     upStatus |-> 0, upBody |-> "none", failedAt |-> "none",
     createUserCalls |-> 0, fetchUserCalls |-> 0, assignCalls |-> 0,
     body |-> "none", assignment |-> NoId, upId |-> NoId]

\* res.json(...) and res.status(status).json(...) of a synchronous handler
SyncResp(op, status) ==
    [NoResp EXCEPT !.op = op, !.status = status, !.body = "json"]

\* res.status(status).json({ error: <a string> }): the literals of the
\* handlers, and err.message in the catch blocks, err being an Error that
\* fetch, JSON.parse, a property read or fetchJson's new Error(...) made
ErrorJson(resp) == [resp EXCEPT !.body = "error"]

\* the response that ends the request of slot, after downstream response resp
AsyncResp(slot, status, failedAt, resp) ==
    [NoResp EXCEPT !.op = slot.op, !.status = status, !.failedAt = failedAt,
                   !.upStatus = IF resp.net THEN 0 ELSE resp.status,
                   !.upBody = IF resp.net THEN "unreachable" ELSE resp.body.kind,
                   !.upId = IF resp.net THEN NoId ELSE resp.body.id,
                   !.body = IF status = 0 THEN "none" ELSE "json",
                   !.name = slot.name, !.email = slot.email,
                   !.productId = slot.productId,
                   !.createUserCalls = slot.createUserCalls,
                   !.fetchUserCalls = slot.fetchUserCalls,
                   !.assignCalls = slot.assignCalls]

\* no response yet: the request a handler has taken in, with the userId and
\* type its body gives
RequestEvent(op, userId, type) ==
    [NoResp EXCEPT !.op = op, !.userId = userId, !.type = type]

\* a response that carries an account
WithAccount(resp, account) ==
    [resp EXCEPT !.account = account.id, !.userId = account.userId,
                 !.type = account.type]

\* slots are handed out lowest first
Free(s) ==
    /\ reqs[s].pc = "idle"
    /\ \A s2 \in Slots : s2 < s => reqs[s2].pc # "idle"

Init ==
    /\ accountsById = EmptyMap
    /\ accountsByUserId = EmptyMap
    /\ balancesByAccountId = EmptyMap
    /\ accountCounter = 1
    /\ creditSum = [id \in AccountIds |-> Num(0)]
    /\ reqs = [s \in Slots |-> IdleSlot]
    /\ lastResp = NoResp

\* the last step's response is resp
Respond(resp) == lastResp' = resp

\* the ledger variables take the values of L
SetLedger(L) ==
    /\ accountsById' = L.byId
    /\ accountsByUserId' = L.byUser
    /\ balancesByAccountId' = L.bal
    /\ accountCounter' = L.counter

LedgerUnchanged ==
    UNCHANGED <<accountsById, accountsByUserId, balancesByAccountId, accountCounter>>

\* a finite balance stays within the model's range
InRange(v) == v.tag = "int" => (v.num >= 0 - MaxBal /\ v.num <= MaxBal)

\* ------------------------------------------------- GET /accounts/:id
getAccountResponse(L, id) ==
    IF id \notin DOMAIN L.byId
    THEN [ErrorJson(SyncResp("get", 404)) EXCEPT !.account = id]
    ELSE [WithAccount(SyncResp("get", 200), L.byId[id]) EXCEPT
            !.balance = JsonNumber(OrZero(BalanceGet(L, L.byId[id].id)))]

GetAccount ==
    \E id \in AccountIds :
        /\ Respond(getAccountResponse(Ledger, id))
        /\ LedgerUnchanged
        /\ UNCHANGED <<creditSum, reqs>>

\* ------------------------------------------------- GET /accounts?userId=
\* the accounts the handler lists
listAccounts(L, userId) == UserList(L, userId)

listAccountsResponse(L, userId) ==
    IF userId = NoUser
    THEN ErrorJson(SyncResp("list", 400))
    ELSE [SyncResp("list", 200) EXCEPT !.userId = userId]

\* the list handler with an index entry made for a user that has none
listLedgerDefaults(L, userId) ==
    IF userId = NoUser \/ userId \in DOMAIN L.byUser THEN L
    ELSE [L EXCEPT !.byUser = MapSet(L.byUser, userId, <<>>)]

\* the ledger after the list handler has run: it calls get on the index and
\* nothing else
listLedger(L, userId) == L

ListAccounts(users) ==
    \E userId \in users \cup {NoUser} :
        /\ Respond(listAccountsResponse(Ledger, userId))
        /\ SetLedger(listLedger(Ledger, userId))
        /\ UNCHANGED <<creditSum, reqs>>

\* ------------------------------------------------- GET /health
Health ==
    /\ Respond(SyncResp("health", 200))
    /\ LedgerUnchanged
    /\ UNCHANGED <<creditSum, reqs>>

\* ------------------------------------------------- Express's own responses
\* The response Express builds when no handler of the file answers: a page,
\* not JSON.  The file installs no error-handling middleware and no
\* catch-all route.
ExpressResp(op, status) ==
    [NoResp EXCEPT !.op = op, !.status = status, !.body = "html"]

\* a POST whose body is not JSON: express.json() passes an error on and the
\* route's handler does not run
MalformedBody ==
    /\ Respond(ExpressResp("parse", 400))
    /\ LedgerUnchanged
    /\ UNCHANGED <<creditSum, reqs>>

\* a request no route matches
UnknownRoute ==
    /\ Respond(ExpressResp("route", 404))
    /\ LedgerUnchanged
    /\ UNCHANGED <<creditSum, reqs>>

\* ------------------------------------------------- POST /accounts/:id/credit
\* typeof amount !== "number" || Number.isNaN(amount)
creditAmountInvalid(amount) == ~TypeofNumber(amount) \/ IsNaN(amount)

\* the credit handler with the amount validated before the account lookup
creditResponseValidateFirst(L, id, amount) ==
    IF creditAmountInvalid(amount)
    THEN [ErrorJson(SyncResp("credit", 400)) EXCEPT !.account = id, !.amount = amount]
    ELSE IF id \notin DOMAIN L.byId
    THEN [ErrorJson(SyncResp("credit", 404)) EXCEPT !.account = id, !.amount = amount]
    ELSE [SyncResp("credit", 200) EXCEPT
            !.account = L.byId[id].id, !.amount = amount,
            !.balance = JsonNumber(creditResult(L, L.byId[id].id, amount))]

creditResponse(L, id, amount) ==
    IF id \notin DOMAIN L.byId
    THEN [ErrorJson(SyncResp("credit", 404)) EXCEPT !.account = id, !.amount = amount]
    ELSE IF creditAmountInvalid(amount)
    THEN [ErrorJson(SyncResp("credit", 400)) EXCEPT !.account = id, !.amount = amount]
    ELSE [SyncResp("credit", 200) EXCEPT
            !.account = L.byId[id].id, !.amount = amount,
            !.balance = JsonNumber(creditResult(L, L.byId[id].id, amount))]

\* the handler reaches applyCredit: the account exists and the amount is valid
creditApplies(L, id, amount) ==
    id \in DOMAIN L.byId /\ ~creditAmountInvalid(amount)

\* the credit handler with the amount applied before it is validated
creditLedgerNoValidation(L, id, amount) ==
    IF id \in DOMAIN L.byId THEN applyCredit(L, L.byId[id].id, amount) ELSE L

\* the credit handler without the account lookup
creditLedgerNoLookup(L, id, amount) ==
    IF creditAmountInvalid(amount) THEN L ELSE applyCredit(L, id, amount)

\* the ledger after the credit handler has run
creditLedger(L, id, amount) ==
    IF creditApplies(L, id, amount) THEN applyCredit(L, L.byId[id].id, amount) ELSE L

Credit(amounts) ==
    \E id \in AccountIds, amount \in amounts :
        LET L2 == creditLedger(Ledger, id, amount) IN
        /\ \A a \in DOMAIN L2.bal : InRange(L2.bal[a])
        /\ SetLedger(L2)
        /\ creditSum' = IF L2 # Ledger \/ creditApplies(Ledger, id, amount)
                        THEN [creditSum EXCEPT ![id] = JsAdd(@, amount)]
                        ELSE creditSum
        /\ Respond(creditResponse(Ledger, id, amount))
        /\ UNCHANGED reqs

\* ------------------------------------------------- the catch blocks
\* what the handler's try block ends with: the error fetchJson threw, or a
\* TypeError (no status) when the parsed body is null and a property of it
\* is read
tryFails(r) == r.threw \/ r.data.kind = "null"
caughtStatus(r) == IF r.threw THEN ErrStatus(r) ELSE ErrStatus(Throw(0))

\* the handler ends without sending a response
AnswerDropped(s, resp) ==
    /\ reqs' = [reqs EXCEPT ![s] = IdleSlot]
    /\ Respond(NoResp)

\* the response is sent and the handler goes back to its await, to call again
AnswerAndRetry(s, resp) ==
    /\ reqs' = reqs
    /\ Respond(resp)

\* the request of slot s is answered with response resp
Answer(s, resp) ==
    /\ reqs' = [reqs EXCEPT ![s] = IdleSlot]
    /\ Respond(resp)

\* the request of slot s goes on as slot, with no response yet
Suspend(s, slot, event) ==
    /\ reqs' = [reqs EXCEPT ![s] = slot]
    /\ Respond(event)

\* ------------------------------------------------- POST /accounts
\* !userId
createInvalid(userId) == userId = NoUser

\* the destructuring without its default
typeDefaultNone(type) == type

\* the destructuring default: type = "standard"
typeDefault(type) == IF type = NoType THEN "standard" ELSE type

CreateStart(s, users, types) ==
    /\ Free(s)
    /\ \E userId \in users \cup {NoUser}, type \in types \cup {NoType} :
         IF createInvalid(userId)
         THEN Answer(s, [ErrorJson(SyncResp("create", 400)) EXCEPT
                 !.failedAt = "validate"])
         ELSE Suspend(s, [IdleSlot EXCEPT
                 !.op = "create", !.pc = "awaitFetchUser", !.userId = userId,
                 !.type = typeDefault(type), !.fetchUserCalls = 1],
                 RequestEvent("create", userId, type))
    /\ LedgerUnchanged
    /\ UNCHANGED creditSum

\* the ledger after ensureUserExists has settled with r
createLedger(L, r, userId, type, t) ==
    IF tryFails(r) THEN L ELSE createAccount(L, userId, type, t)

CreateUserFetched(s, resps) ==
    /\ reqs[s].pc = "awaitFetchUser"
    /\ \E resp \in resps, t \in Times :
        LET r == fetchJson(resp)
            L2 == createLedger(Ledger, r, reqs[s].userId, reqs[s].type, t)
        IN  /\ L2.counter <= MaxAccounts + 1
            /\ SetLedger(L2)
            /\ IF tryFails(r)
               THEN Answer(s, ErrorJson(
                        AsyncResp(reqs[s], caughtStatus(r), "fetchUser", resp)))
               ELSE Answer(s, WithAccount(AsyncResp(reqs[s], 201, "none", resp),
                                          L2.byId[Ledger.counter]))
    /\ UNCHANGED creditSum

\* ------------------------------------------------- POST /accounts/onboard
\* the validation without the test of email
onboardInvalidNoEmail(name, email, productId) ==
    ~name \/ productId = NoProduct

\* !name || !email || !productId
onboardInvalid(name, email, productId) ==
    ~name \/ ~email \/ productId = NoProduct

\* the destructuring default: initialCredit = 0
initialCreditDefault(v) == IF v = Undefined THEN Num(0) ELSE v

\* typeof initialCredit === "number" && !Number.isNaN(initialCredit)
initialCreditApplies(v) == TypeofNumber(v) /\ ~IsNaN(v)

OnboardStart(s, products, credits) ==
    /\ Free(s)
    /\ \E name \in BOOLEAN, email \in BOOLEAN,
          productId \in products \cup {NoProduct}, initialCredit \in credits :
         IF onboardInvalid(name, email, productId)
         THEN Answer(s, [ErrorJson(SyncResp("onboard", 400)) EXCEPT
                 !.failedAt = "validate", !.name = name, !.email = email,
                 !.productId = productId])
         ELSE Suspend(s, [IdleSlot EXCEPT
                 !.op = "onboard", !.pc = "awaitCreateUser",
                 !.name = name, !.email = email, !.productId = productId,
                 !.initialCredit = initialCreditDefault(initialCredit),
                 !.createUserCalls = 1], NoResp)
    /\ LedgerUnchanged
    /\ UNCHANGED creditSum

\* steps 3 and 4 with the id read off the response itself, not off its user
onboardLedgerNoUnwrap(L, r, initialCredit, t) ==
    IF tryFails(r) THEN L
    ELSE LET L1 == createAccount(L, IF r.data.wrapped THEN NoId ELSE r.data.id,
                                 "standard", t)
         IN  IF initialCreditApplies(initialCredit)
             THEN applyCredit(L1, L1.byId[L.counter].id, initialCredit)
             ELSE L1

\* step 3 without step 4
onboardLedgerNoCredit(L, r, initialCredit, t) ==
    IF tryFails(r) THEN L ELSE createAccount(L, r.data.id, "standard", t)

\* steps 3 and 4 run before the outcome of createUser is looked at
onboardLedgerEager(L, r, initialCredit, t) ==
    LET L1 == createAccount(L, r.data.id, "standard", t)
    IN  IF initialCreditApplies(initialCredit)
        THEN applyCredit(L1, L1.byId[L.counter].id, initialCredit)
        ELSE L1

\* the ledger after createUser has settled with r: steps 3 and 4
onboardLedger(L, r, initialCredit, t) ==
    IF tryFails(r) THEN L
    ELSE LET L1 == createAccount(L, r.data.id, "standard", t)
         IN  IF initialCreditApplies(initialCredit)
             THEN applyCredit(L1, L1.byId[L.counter].id, initialCredit)
             ELSE L1

OnboardUserCreated(s, resps) ==
    /\ reqs[s].pc = "awaitCreateUser"
    /\ \E resp \in resps, t \in Times :
        LET r == fetchJson(resp)
            L2 == onboardLedger(Ledger, r, reqs[s].initialCredit, t)
            id == Ledger.counter
        IN  /\ L2.counter <= MaxAccounts + 1
            /\ SetLedger(L2)
            /\ creditSum' =
                 IF ~tryFails(r) /\ initialCreditApplies(reqs[s].initialCredit)
                 THEN [creditSum EXCEPT ![id] = JsAdd(@, reqs[s].initialCredit)]
                 ELSE creditSum
            /\ IF tryFails(r)
               THEN Answer(s, ErrorJson(
                        AsyncResp(reqs[s], caughtStatus(r), "createUser", resp)))
               ELSE Suspend(s, [reqs[s] EXCEPT
                       !.pc = "awaitAssign", !.userId = r.data.id,
                       !.type = "standard", !.account = id, !.assignCalls = 1],
                    AsyncResp(reqs[s], 0, "none", resp))

OnboardAssigned(s, resps) ==
    /\ reqs[s].pc = "awaitAssign"
    /\ \E resp \in resps :
        LET r == fetchJson(resp)
            balance == OrZero(BalanceGet(Ledger, reqs[s].account))
        IN  IF tryFails(r)
            THEN Answer(s, [ErrorJson(
                        AsyncResp(reqs[s], caughtStatus(r), "assign", resp))
                               EXCEPT !.account = reqs[s].account])
            ELSE Answer(s, [WithAccount(AsyncResp(reqs[s], 201, "none", resp),
                                        Ledger.byId[reqs[s].account])
                               EXCEPT !.balance = JsonNumber(balance),
                                      !.assignment = r.data.id])
    /\ LedgerUnchanged
    /\ UNCHANGED creditSum

\* ------------------------------------------------- the service
\* The handlers with every input and every downstream behaviour modelled.
Next ==
    \/ GetAccount
    \/ ListAccounts(UserIds)
    \/ Health
    \/ Credit(JsonValues)
    \/ MalformedBody
    \/ UnknownRoute
    \/ \E s \in Slots : CreateStart(s, UserIds \cup {UnknownUser}, Types)
    \/ \E s \in Slots : CreateUserFetched(s, Responses(UserIds))
    \/ \E s \in Slots : OnboardStart(s, ProductIds, InitialCredits)
    \/ \E s \in Slots : OnboardUserCreated(s, Responses(UserIds))
    \/ \E s \in Slots : OnboardAssigned(s, Responses(ProductIds))

Spec == Init /\ [][Next]_vars

\* The ledger's accounts and index: every user id and type, no credits, the
\* mock collaborators downstream.
NextLedger ==
    \/ GetAccount
    \/ ListAccounts(UserIds)
    \/ \E s \in Slots : CreateStart(s, UserIds \cup {UnknownUser}, Types)
    \/ \E s \in Slots : CreateUserFetched(s, {identityGetUser(reqs[s].userId)})
    \/ \E s \in Slots : OnboardStart(s, ProductIds, {Undefined})
    \/ \E s \in Slots : OnboardUserCreated(s, identityCreateUser(UserIds))
    \/ \E s \in Slots : OnboardAssigned(s,
            {catalogServer(reqs[s].productId, reqs[s].account)})

SpecLedger == Init /\ [][NextLedger]_vars

\* The balances: every amount, an initial credit or none, one user and one
\* product,
\* the mock collaborators downstream.
NextBalance ==
    \/ GetAccount
    \/ Credit(JsonValues)
    \/ \E s \in Slots : OnboardStart(s, {"p1"}, FewCredits)
    \/ \E s \in Slots : OnboardUserCreated(s, identityCreateUser({"u1"}))
    \/ \E s \in Slots : OnboardAssigned(s,
            {catalogServer(reqs[s].productId, reqs[s].account)})

SpecBalance == Init /\ [][NextBalance]_vars

\* The downstream client and onboarding: every downstream response and every
\* initial credit, one user and one product, no credits but the initial one.
NextDownstream ==
    \/ GetAccount
    \/ Health
    \/ \E s \in Slots : CreateStart(s, {"u1"}, {"standard"})
    \/ \E s \in Slots : CreateUserFetched(s, Responses({"u1"}))
    \/ \E s \in Slots : OnboardStart(s, {"p1"}, InitialCredits)
    \/ \E s \in Slots : OnboardUserCreated(s, Responses({"u1"}))
    \/ \E s \in Slots : OnboardAssigned(s, Responses({"p1"}))

SpecDownstream == Init /\ [][NextDownstream]_vars

\* Every route at once: one user, one type, the mock collaborators or an
\* unreachable one downstream, and few amounts.
ServiceAmounts == {Num(1), Num(0 - 1), Str}
ServiceCredits == {Undefined, Num(1), PosInf, Str}
NextService ==
    \/ GetAccount
    \/ ListAccounts({"u1"})
    \/ Health
    \/ Credit(ServiceAmounts)
    \/ MalformedBody
    \/ UnknownRoute
    \/ \E s \in Slots : CreateStart(s, {"u1", UnknownUser}, {"standard"})
    \/ \E s \in Slots : CreateUserFetched(s,
            {identityGetUser(reqs[s].userId), Unreachable})
    \/ \E s \in Slots : OnboardStart(s, ProductIds, ServiceCredits)
    \/ \E s \in Slots : OnboardUserCreated(s,
            identityCreateUser({"u1"}) \cup {Unreachable})
    \/ \E s \in Slots : OnboardAssigned(s,
            {catalogServer(reqs[s].productId, reqs[s].account), Unreachable})

SpecService == Init /\ [][NextService]_vars

\* The requests that wait downstream, with every downstream call returning
\* or failing in the end: one user, one product, the mock collaborators or
\* an unreachable one.  New requests are taken in while the accounts they
\* may create fit the model's range, so that no call waits on the range.
Room ==
    accountCounter - 1 + Cardinality({s \in Slots :
        reqs[s].pc \in {"awaitFetchUser", "awaitCreateUser"}}) < MaxAccounts
FetchUserReturns(s) ==
    CreateUserFetched(s, {identityGetUser(reqs[s].userId), Unreachable})
CreateUserReturns(s) ==
    OnboardUserCreated(s, identityCreateUser({"u1"}) \cup {Unreachable})
AssignReturns(s) ==
    OnboardAssigned(s,
        {catalogServer(reqs[s].productId, reqs[s].account), Unreachable})
NextLive ==
    \/ GetAccount
    \/ \E s \in Slots : Room /\ CreateStart(s, {"u1", UnknownUser}, {"standard"})
    \/ \E s \in Slots : FetchUserReturns(s)
    \/ \E s \in Slots : Room /\ OnboardStart(s, ProductIds, FewCredits)
    \/ \E s \in Slots : CreateUserReturns(s)
    \/ \E s \in Slots : AssignReturns(s)

SpecLive ==
    /\ Init /\ [][NextLive]_vars
    /\ \A s \in Slots :
         /\ WF_vars(FetchUserReturns(s))
         /\ WF_vars(CreateUserReturns(s))
         /\ WF_vars(AssignReturns(s))

TypeOK ==
    /\ DOMAIN accountsById \subseteq AccountIds
    /\ accountCounter \in 1..(MaxAccounts + 1)
    /\ \A s \in Slots : reqs[s].pc \in
         {"idle", "awaitFetchUser", "awaitCreateUser", "awaitAssign"}

\* ================================================================= claims
\* the last step received a downstream response with a non-2xx status
Rejected(resp) == resp.upStatus # 0 /\ ~ResOk(resp.upStatus)

\* the balance an initial credit ic leaves on a new account when it is
\* credited as given, and not at all when it is no number
CreditedBalance(ic) == IF ic.tag \in {"int", "inf", "ninf"} THEN ic ELSE Num(0)

C2_BalanceIsSumOfCredits ==
    /\ DOMAIN balancesByAccountId = DOMAIN accountsById
    /\ \A id \in DOMAIN accountsById : balancesByAccountId[id] = creditSum[id]

\* the places <<userId, i>> of the per-user index that hold account id
IndexPlaces(id) ==
    {p \in {<<u, i>> : u \in DOMAIN accountsByUserId, i \in 1..MaxAccounts} :
        /\ p[2] <= Len(accountsByUserId[p[1]])
        /\ accountsByUserId[p[1]][p[2]].id = id}

\* C3: the per-user index and the account-by-id map hold the same accounts:
\* every entry of a user's list is the account the map holds under its id,
\* and every account of the map is in exactly one place of the index, in the
\* list of its own userId.
C3_IndexMatchesPrimaryMap ==
    /\ \A u \in DOMAIN accountsByUserId :
         \A i \in 1..Len(accountsByUserId[u]) :
            LET a == accountsByUserId[u][i]
            IN  /\ a.id \in DOMAIN accountsById
                /\ accountsById[a.id] = a
                /\ a.userId = u
    /\ \A id \in DOMAIN accountsById :
         /\ Cardinality(IndexPlaces(id)) = 1
         /\ \A p \in IndexPlaces(id) : p[1] = accountsById[id].userId

C3_Witness ==
    /\ Cardinality(DOMAIN accountsById) = 2
    /\ \E u \in DOMAIN accountsByUserId : Len(accountsByUserId[u]) = 2

\* C4: account ids are unique, increase in creation order and are never
\* reused: a step that changes the account map adds one account, under the
\* counter's value, which is above every id in use and in neither map, moves
\* the counter up, and leaves every existing entry as it was.
C4_IdsFreshAndIncreasing ==
    [][/\ accountCounter' >= accountCounter
       /\ \A id \in DOMAIN accountsById' : id < accountCounter' /\ accountsById'[id].id = id
       /\ accountsById' # accountsById =>
            /\ accountCounter \notin DOMAIN accountsById \cup DOMAIN balancesByAccountId
            /\ DOMAIN accountsById' = DOMAIN accountsById \cup {accountCounter}
            /\ accountCounter' > accountCounter
            /\ \A id \in DOMAIN accountsById :
                 /\ id < accountCounter
                 /\ accountsById'[id] = accountsById[id]
                 /\ balancesByAccountId'[id] = balancesByAccountId[id]
      ]_vars

\* a POST /accounts has created the second account while an onboarding that
\* created the first is still waiting for the catalog
C4_Witness ==
    /\ lastResp.op = "create" /\ lastResp.status = 201 /\ lastResp.account = 2
    /\ \E s \in Slots : reqs[s].pc = "awaitAssign" /\ reqs[s].account = 1
    /\ DOMAIN accountsById = {1, 2}

\* C5: when the createUser call of an onboarding fails (a non-2xx response, or
\* the service cannot be reached), the call ends in that step with an error
\* response, the ledger is as it was, and no assignProduct call was made.
C5_CreateUserFailureLeavesNoState ==
    [][\A s \in Slots :
        (/\ reqs[s].pc = "awaitCreateUser" /\ reqs'[s] # reqs[s]
         /\ (lastResp'.upBody = "unreachable" \/ Rejected(lastResp')))
        => /\ LedgerUnchanged
           /\ reqs'[s] = IdleSlot
           /\ lastResp'.op = "onboard" /\ lastResp'.status >= 400
           /\ lastResp'.failedAt = "createUser"
           /\ lastResp'.assignCalls = 0
      ]_vars

C5_Witness ==
    /\ lastResp.op = "onboard" /\ lastResp.failedAt = "createUser"
    /\ Rejected(lastResp) /\ lastResp.status = lastResp.upStatus
    /\ accountsById = EmptyMap /\ accountCounter = 1

\* C6: an onboarding request that lacks name, email or productId is answered
\* 400 with the ledger as it was and no createUser call made; no request that
\* lacks one of them is ever in flight.
C6_MissingFieldRejectedFirst ==
    /\ [](\A s \in Slots : reqs[s].op = "onboard" =>
            reqs[s].name /\ reqs[s].email /\ reqs[s].productId # NoProduct)
    /\ [][(/\ lastResp'.op = "onboard"
           /\ ~(lastResp'.name /\ lastResp'.email /\ lastResp'.productId # NoProduct))
          => /\ lastResp'.status = 400
             /\ lastResp'.failedAt = "validate"
             /\ lastResp'.createUserCalls = 0
             /\ lastResp'.assignCalls = 0
             /\ LedgerUnchanged
             /\ reqs' = reqs
         ]_vars

\* the request had a name and a productId, and no email
C6_Witness ==
    /\ lastResp.op = "onboard" /\ lastResp.status = 400
    /\ lastResp.name /\ ~lastResp.email /\ lastResp.productId # NoProduct
    /\ lastResp.createUserCalls = 0

\* C7: every non-2xx downstream response makes the request fail with the
\* upstream status, whatever the body of the downstream response is.
C7_UpstreamStatusUnchanged ==
    Rejected(lastResp) =>
        /\ lastResp.failedAt # "none"
        /\ lastResp.status = lastResp.upStatus

\* C8: the balance a credit returns, and the balance a GET /accounts/:id that
\* follows it returns, is the sum of the deltas credited to the account.
C8_CreditReturnsSum ==
    (lastResp.op = "credit" /\ lastResp.status = 200) =>
        /\ lastResp.balance = creditSum[lastResp.account]
        /\ getAccountResponse(Ledger, lastResp.account).balance =
             creditSum[lastResp.account]

\* C9: a credit on an account id that does not exist is answered 404 and
\* leaves the ledger as it was, whatever the amount.
C9_CreditUnknownAccount ==
    [][(lastResp'.op = "credit" /\ lastResp'.account \notin DOMAIN accountsById)
        => /\ lastResp'.status = 404
           /\ LedgerUnchanged
           /\ creditSum' = creditSum
      ]_vars

\* a valid amount was credited to an id the ledger does not hold, other
\* accounts being there
C9_Witness ==
    /\ lastResp.op = "credit" /\ lastResp.status = 404
    /\ lastResp.amount.tag \in {"int", "inf", "ninf"}
    /\ lastResp.account \notin DOMAIN accountsById
    /\ accountsById # EmptyMap

\* C10: an initialCredit that is no finite number does not get the request
\* rejected and leaves the balance of the new account 0.
C10_NonFiniteInitialCreditIgnored ==
    \A s \in Slots :
        (reqs[s].pc = "awaitAssign" /\ reqs[s].initialCredit.tag # "int")
        => balancesByAccountId[reqs[s].account] = Num(0)

\* C11: an onboarding with name, email, productId and a numeric initialCredit
\* c (0 when absent) whose two downstream calls are accepted is answered 201
\* with the account it created, balance c and an assignment whose productId
\* is the requested one.
C11_OnboardReturnsCreditedBalance ==
    [][\A s \in Slots :
        (/\ reqs[s].pc = "awaitAssign" /\ reqs'[s] # reqs[s]
         /\ TypeofNumber(reqs[s].initialCredit)
         /\ lastResp'.upStatus # 0 /\ ResOk(lastResp'.upStatus))
        => /\ lastResp'.op = "onboard" /\ lastResp'.status = 201
           /\ lastResp'.account = reqs[s].account
           /\ lastResp'.userId = reqs[s].userId
           /\ lastResp'.balance = reqs[s].initialCredit
           /\ lastResp'.assignment = reqs[s].productId
      ]_vars

\* C12: a POST /accounts that succeeds for (userId, type) is followed by a
\* GET /accounts/:id of the returned id that returns 200 with that id, userId
\* and type and balance 0; the type of a request that gives none is
\* "standard".
C12_CreateThenGet ==
    [][\A s \in Slots :
        /\ (reqs[s].pc = "idle" /\ reqs'[s].pc = "awaitFetchUser")
           => /\ reqs'[s].userId = lastResp'.userId
              /\ reqs'[s].type =
                   IF lastResp'.type = NoType THEN "standard" ELSE lastResp'.type
        /\ (reqs[s].pc = "awaitFetchUser" /\ reqs'[s] # reqs[s]
              /\ lastResp'.status = 201)
           => /\ lastResp'.userId = reqs[s].userId
              /\ lastResp'.type = reqs[s].type
              /\ getAccountResponse(Ledger', lastResp'.account) =
                   [SyncResp("get", 200) EXCEPT
                      !.account = lastResp'.account,
                      !.userId = reqs[s].userId,
                      !.type = reqs[s].type,
                      !.balance = Num(0)]
      ]_vars

\* the second account, created by a POST /accounts of type premium
C12_Witness ==
    /\ lastResp.op = "create" /\ lastResp.status = 201
    /\ lastResp.account = 2 /\ lastResp.type = "premium"
    /\ getAccountResponse(Ledger, 2).status = 200

\* the ids of the accounts created for userId
CreatedFor(userId) ==
    {id \in DOMAIN accountsById : accountsById[id].userId = userId}

ValidationError(resp) ==
    /\ resp.status = 400
    /\ resp.op \in {"create", "list", "credit", "onboard"}
    /\ resp.failedAt \in {"none", "validate"}

\* C14: a request answered with a validation error (400: no userId on POST
\* /accounts or GET /accounts, an amount that is no number on a credit, no
\* name, email or productId on an onboarding) changes nothing: the account
\* map, the per-user index, the balance map and the id counter are as before
\* the request, and no downstream call was started.
C14_ValidationErrorsMutateNothing ==
    [][ValidationError(lastResp') =>
         /\ LedgerUnchanged
         /\ creditSum' = creditSum
         /\ reqs' = reqs
         /\ lastResp'.createUserCalls = 0 /\ lastResp'.fetchUserCalls = 0
      ]_vars

\* a credit of a non-number to an account that exists and has a balance,
\* while another request is in flight
C14_Witness ==
    /\ ValidationError(lastResp) /\ lastResp.op = "credit"
    /\ lastResp.account \in DOMAIN accountsById
    /\ lastResp.amount = Str
    /\ balancesByAccountId[lastResp.account] = Num(1)
    /\ \E s \in Slots : reqs[s].pc # "idle"

\* C15: when the fetchUser call of a POST /accounts fails (a non-2xx
\* response, or the identity service cannot be reached), the request fails
\* with the upstream status (500 when unreachable) and the ledger is as it
\* was: no account, balance or index entry, and the id counter unmoved.
C15_CreateNeedsConfirmedUser ==
    [][\A s \in Slots :
        (/\ reqs[s].pc = "awaitFetchUser" /\ reqs'[s] # reqs[s]
         /\ (lastResp'.upBody = "unreachable" \/ Rejected(lastResp')))
        => /\ LedgerUnchanged
           /\ lastResp'.op = "create" /\ lastResp'.failedAt = "fetchUser"
           /\ lastResp'.status =
                IF lastResp'.upBody = "unreachable" THEN 500 ELSE lastResp'.upStatus
      ]_vars

\* C16: a downstream call that fails without an HTTP status (the service
\* cannot be reached) makes the request fail with status 500 and writes
\* nothing: after a failed createUser or fetchUser the ledger is as before the
\* request, after a failed assignProduct the account created and its credited
\* balance are still in it.
C16_UnreachableIs500 ==
    [][\A s \in Slots :
        (reqs'[s] # reqs[s] /\ lastResp'.upBody = "unreachable")
        => /\ lastResp'.status = 500
           /\ lastResp'.failedAt \in {"fetchUser", "createUser", "assign"}
           /\ reqs'[s] = IdleSlot
           /\ LedgerUnchanged
           /\ reqs[s].pc \in {"awaitFetchUser", "awaitCreateUser"}
                => reqs[s].account = 0 /\ lastResp'.account = 0
           /\ reqs[s].pc = "awaitAssign"
                => /\ lastResp'.account = reqs[s].account
                   /\ reqs[s].account \in DOMAIN accountsById'
                   /\ accountsById'[reqs[s].account].userId = reqs[s].userId
                   /\ balancesByAccountId'[reqs[s].account] =
                        CreditedBalance(reqs[s].initialCredit)
      ]_vars

\* the catalog could not be reached by an onboarding that had credited 1
C16_Witness ==
    /\ lastResp.op = "onboard" /\ lastResp.failedAt = "assign"
    /\ lastResp.upBody = "unreachable" /\ lastResp.status = 500
    /\ lastResp.account \in DOMAIN accountsById
    /\ balancesByAccountId[lastResp.account] = Num(1)

\* C17: every response of the service with an error status (4xx or 5xx),
\* from any endpoint and on any failure path, is a JSON object with an error
\* field that holds a string.
C17_ErrorsAreJsonWithErrorString ==
    lastResp.status >= 400 => lastResp.body = "error"

\* C18: an onboarding call goes Start -> UserCreated -> AccountOpened ->
\* [Credited] -> Assigned -> Done in that order.  It writes the ledger only
\* in the step that follows a successful createUser; when assignProduct is
\* called the account is in the ledger with its credit; and it fails only
\* from Start (validation, createUser) or from the assignProduct attempt.
C18_OnboardStateMachine ==
    /\ [](\A s \in Slots : reqs[s].op = "onboard" =>
            /\ reqs[s].pc \in {"awaitCreateUser", "awaitAssign"}
            /\ reqs[s].pc = "awaitCreateUser" =>
                 /\ reqs[s].createUserCalls = 1 /\ reqs[s].assignCalls = 0
                 /\ reqs[s].account = 0
            /\ reqs[s].pc = "awaitAssign" =>
                 /\ reqs[s].createUserCalls = 1 /\ reqs[s].assignCalls = 1
                 /\ reqs[s].account \in DOMAIN accountsById
                 /\ reqs[s].account \in DOMAIN balancesByAccountId)
    /\ [][\A s \in Slots :
            (reqs'[s] # reqs[s] /\ "onboard" \in {reqs[s].op, reqs'[s].op}) =>
            /\ <<reqs[s].pc, reqs'[s].pc>> \in
                 {<<"idle", "awaitCreateUser">>,
                  <<"awaitCreateUser", "awaitAssign">>,
                  <<"awaitCreateUser", "idle">>,
                  <<"awaitAssign", "idle">>}
            /\ ~LedgerUnchanged =>
                 /\ reqs[s].pc = "awaitCreateUser" /\ reqs'[s].pc = "awaitAssign"
                 /\ lastResp'.upStatus # 0 /\ ResOk(lastResp'.upStatus)
            /\ reqs'[s].pc = "awaitAssign" =>
                 /\ reqs'[s].account = accountCounter
                 /\ reqs'[s].account \in DOMAIN accountsById'
                 /\ balancesByAccountId'[reqs'[s].account] =
                      CreditedBalance(reqs[s].initialCredit)
            /\ (reqs[s].pc = "awaitCreateUser" /\ reqs'[s].pc = "idle") =>
                 lastResp'.status >= 400 /\ lastResp'.failedAt = "createUser"
            /\ reqs[s].pc = "awaitAssign" =>
                 \/ lastResp'.status = 201 /\ lastResp'.failedAt = "none"
                 \/ lastResp'.status >= 400 /\ lastResp'.failedAt = "assign"
        ]_vars
    /\ [][(lastResp'.op = "onboard" /\ lastResp'.failedAt = "validate")
            => reqs' = reqs /\ LedgerUnchanged]_vars

\* createUser has returned, the account is open and credited, and the
\* assignProduct call is out
C18_Witness ==
    \E s \in Slots :
        /\ reqs[s].pc = "awaitAssign" /\ reqs[s].initialCredit = Num(1)
        /\ balancesByAccountId[reqs[s].account] = Num(1)
        /\ lastResp.op = "onboard" /\ lastResp.status = 0
        /\ ResOk(lastResp.upStatus)

\* C19: an account that is in the ledger stays in it with the same id,
\* userId, type and createdAt, and a user's list only grows at its end: no
\* step removes an account, changes one, or removes or reorders the entries
\* of a list.
C19_AccountsArePermanent ==
    [][/\ \A id \in DOMAIN accountsById :
            /\ id \in DOMAIN accountsById'
            /\ accountsById'[id] = accountsById[id]
            /\ id \in DOMAIN balancesByAccountId'
       /\ \A u \in DOMAIN accountsByUserId :
            /\ u \in DOMAIN accountsByUserId'
            /\ Len(accountsByUserId'[u]) >= Len(accountsByUserId[u])
            /\ SubSeq(accountsByUserId'[u], 1, Len(accountsByUserId[u])) =
                 accountsByUserId[u]
      ]_vars

\* an onboarding has just failed at assignProduct, leaving a second account
\* behind the first, which a credit has changed the balance of
C19_Witness ==
    /\ lastResp.op = "onboard" /\ lastResp.failedAt = "assign"
    /\ lastResp.account = 2
    /\ "u1" \in DOMAIN accountsByUserId /\ Len(accountsByUserId["u1"]) = 2
    /\ balancesByAccountId[1] = Num(0 - 1)

\* the downstream call of the last step returned a 2xx response whose body
\* gives an object to read the entity from (an empty body is read as {})
Accepted(resp) ==
    /\ resp.upStatus # 0 /\ ResOk(resp.upStatus)
    /\ resp.upBody \in {"object", "empty"}

\* C20: an onboarding call whose createUser succeeds creates exactly one
\* account, of type "standard", whose userId is the id of the user the
\* identity service returned to that call; a call whose createUser does not
\* succeed creates none, and no other step of an onboarding creates one.
C20_OneStandardAccountPerOnboarding ==
    [][\A s \in Slots :
        (reqs'[s] # reqs[s] /\ "onboard" \in {reqs[s].op, reqs'[s].op}) =>
        /\ (reqs[s].pc = "awaitCreateUser" /\ Accepted(lastResp')) =>
             /\ accountCounter \notin DOMAIN accountsById
             /\ DOMAIN accountsById' = DOMAIN accountsById \cup {accountCounter}
             /\ \A id \in DOMAIN accountsById : accountsById'[id] = accountsById[id]
             /\ accountsById'[accountCounter].id = accountCounter
             /\ accountsById'[accountCounter].type = "standard"
             /\ accountsById'[accountCounter].userId = lastResp'.upId
             /\ accountsByUserId' =
                  MapSet(accountsByUserId, lastResp'.upId,
                         Append(UserList(Ledger, lastResp'.upId),
                                accountsById'[accountCounter]))
             /\ reqs'[s].account = accountCounter
             /\ reqs'[s].pc = "awaitAssign"
        /\ ~(reqs[s].pc = "awaitCreateUser" /\ Accepted(lastResp')) =>
             /\ accountsById' = accountsById
             /\ accountsByUserId' = accountsByUserId
             /\ accountCounter' = accountCounter
      ]_vars

\* the identity service has returned user u1 and the call has opened the
\* second account of the ledger for it
C20_Witness ==
    \E s \in Slots :
        /\ reqs[s].pc = "awaitAssign" /\ reqs[s].account = 2
        /\ lastResp.op = "onboard" /\ lastResp.upId = "u1" /\ Accepted(lastResp)
        /\ accountsById[2].userId = "u1" /\ accountsById[2].type = "standard"
        /\ Cardinality(DOMAIN accountsById) = 2

\* C21: no downstream call is retried.  A request in flight has issued each
\* of its calls at most once (createUser and assignProduct for an onboarding,
\* fetchUser for a POST /accounts), and the step in which one of them fails
\* ends the request with an error response.
C21_NoRetry ==
    /\ [](\A s \in Slots :
            /\ reqs[s].createUserCalls <= 1
            /\ reqs[s].assignCalls <= 1
            /\ reqs[s].fetchUserCalls <= 1
            /\ reqs[s].op = "create" =>
                 reqs[s].createUserCalls = 0 /\ reqs[s].assignCalls = 0)
    /\ [][/\ lastResp'.createUserCalls <= 1
          /\ lastResp'.assignCalls <= 1
          /\ lastResp'.fetchUserCalls <= 1
          /\ (lastResp'.upBody # "none" /\ ~Accepted(lastResp')) =>
               /\ \E s \in Slots :
                    /\ reqs[s].pc # "idle"
                    /\ reqs' = [reqs EXCEPT ![s] = IdleSlot]
               /\ lastResp'.status >= 400
               /\ lastResp'.body = "error"
               /\ lastResp'.failedAt \in {"fetchUser", "createUser", "assign"}
        ]_vars

\* an onboarding has failed at assignProduct after one call of each kind
C21_Witness ==
    /\ lastResp.op = "onboard" /\ lastResp.failedAt = "assign"
    /\ lastResp.status >= 400 /\ ~Accepted(lastResp)
    /\ lastResp.createUserCalls = 1 /\ lastResp.assignCalls = 1
    /\ \A s \in Slots : reqs[s] = IdleSlot

\* C22: a downstream response with a 2xx status and an empty body is read as
\* an empty object and is no error: the request that receives it goes on on
\* its success path (a POST /accounts answers 201 with the account, an
\* onboarding opens its account after createUser and answers 201 after
\* assignProduct).
C22_EmptyBodyIsEmptyObject ==
    [][\A s \in Slots :
        (/\ reqs'[s] # reqs[s]
         /\ lastResp'.upBody = "empty" /\ ResOk(lastResp'.upStatus)) =>
        /\ lastResp'.failedAt = "none"
        /\ reqs[s].pc = "awaitFetchUser" =>
             /\ lastResp'.status = 201
             /\ lastResp'.account = accountCounter
             /\ accountCounter \in DOMAIN accountsById'
        /\ reqs[s].pc = "awaitCreateUser" =>
             /\ lastResp'.status = 0
             /\ reqs'[s].pc = "awaitAssign"
             /\ reqs'[s].account = accountCounter
             /\ accountCounter \in DOMAIN accountsById'
        /\ reqs[s].pc = "awaitAssign" =>
             /\ lastResp'.status = 201 /\ lastResp'.body = "json"
             /\ lastResp'.account = reqs[s].account
             /\ lastResp'.assignment = NoId
             /\ reqs'[s] = IdleSlot
      ]_vars

\* the catalog has answered 200 with no body and the onboarding is done
C22_Witness ==
    /\ lastResp.op = "onboard" /\ lastResp.status = 201
    /\ lastResp.upBody = "empty" /\ lastResp.upStatus = 200
    /\ lastResp.account \in DOMAIN accountsById

\* C23: the reads are pure lookups.  A step that answers a GET /accounts/:id,
\* a GET /accounts?userId= or a GET /health, with success or with an error,
\* leaves the account map, the per-user index, the balance map and the id
\* counter as they were, and the requests in flight too; the index never
\* holds an entry for a user without accounts.
C23_ReadsArePure ==
    /\ [](\A u \in DOMAIN accountsByUserId : accountsByUserId[u] # <<>>)
    /\ [][lastResp'.op \in {"get", "list", "health"} =>
            /\ LedgerUnchanged
            /\ creditSum' = creditSum
            /\ reqs' = reqs
         ]_vars

\* the accounts of a user that has none have been listed while a request was
\* in flight
C23_Witness ==
    /\ lastResp.op = "list" /\ lastResp.status = 200
    /\ lastResp.userId \notin DOMAIN accountsByUserId
    /\ \E s \in Slots : reqs[s].pc # "idle"

\* the accounts of the onboardings that wait for the catalog and had a
\* numeric initialCredit to apply
CreditedInFlight ==
    {reqs[s].account : s \in {s2 \in Slots :
        /\ reqs[s2].pc = "awaitAssign"
        /\ initialCreditApplies(reqs[s2].initialCredit)}}

\* C24: the local steps of an onboarding are atomic for other requests.  The
\* account of an onboarding with a numeric initialCredit comes into the
\* ledger with that credit applied, in one step, so every read or credit
\* that runs while the onboarding waits for the catalog finds a balance that
\* holds the initial credit (plus the credits applied since).
C24_AccountAppearsCredited ==
    [][/\ \A s \in Slots :
            (reqs[s].pc = "awaitCreateUser" /\ reqs'[s].pc = "awaitAssign") =>
            /\ reqs'[s].account \notin DOMAIN accountsById
            /\ reqs'[s].account \in DOMAIN accountsById'
            /\ balancesByAccountId'[reqs'[s].account] =
                 IF initialCreditApplies(reqs[s].initialCredit)
                 THEN reqs[s].initialCredit ELSE Num(0)
       /\ (lastResp'.op = "get" /\ lastResp'.status = 200
             /\ lastResp'.account \in CreditedInFlight) =>
            lastResp'.balance = JsonNumber(OrZero(creditSum[lastResp'.account]))
       /\ (lastResp'.op = "credit" /\ lastResp'.status = 200
             /\ lastResp'.account \in CreditedInFlight) =>
            lastResp'.balance = JsonNumber(creditSum'[lastResp'.account])
      ]_vars

\* a GET has read the account of an onboarding that waits for the catalog,
\* and found its initial credit of 1
C24_Witness ==
    /\ lastResp.op = "get" /\ lastResp.status = 200
    /\ lastResp.account \in CreditedInFlight
    /\ lastResp.balance = Num(1)
    /\ creditSum[lastResp.account] = Num(1)

\* C25: the balance a successful onboarding returns is the ledger's balance
\* of the new account when the response is built: the initial credit plus
\* the credits other requests applied to the account while assignProduct was
\* in flight, as JSON writes that number, and what a GET /accounts/:id that
\* follows at once returns.
C25_OnboardReturnsCurrentBalance ==
    [][\A s \in Slots :
        (reqs[s].pc = "awaitAssign" /\ reqs'[s] # reqs[s]
           /\ lastResp'.status = 201) =>
        /\ lastResp'.balance = JsonNumber(creditSum[reqs[s].account])
        /\ lastResp'.balance =
             getAccountResponse(Ledger', reqs[s].account).balance
      ]_vars

\* C26: every request gets exactly one response.  Provided every downstream
\* call returns or fails in the end, a request that waits downstream is
\* answered in the end; the step that ends it sends its one response, 201 or
\* an error status, and no step before it sends one; and while it waits the
\* service takes and answers other requests.
C26_ExactlyOneResponse ==
    /\ \A s \in Slots : (reqs[s].pc # "idle") ~> (reqs[s].pc = "idle")
    /\ [][\A s \in Slots :
            (reqs[s].pc # "idle" /\ reqs'[s] # reqs[s]) =>
            /\ lastResp'.op = reqs[s].op
            /\ reqs'[s].pc = "idle" <=> lastResp'.status # 0
            /\ lastResp'.status # 0 =>
                 /\ reqs'[s] = IdleSlot
                 /\ lastResp'.status = 201 \/ lastResp'.status >= 400
                 /\ lastResp'.status = 201 <=> lastResp'.failedAt = "none"
                 /\ lastResp'.body = IF lastResp'.status = 201 THEN "json" ELSE "error"
        ]_vars
    /\ [](ENABLED GetAccount)

\* a POST /accounts has been answered 201 while an onboarding waits for the
\* catalog
C26_Witness ==
    /\ lastResp.op = "create" /\ lastResp.status = 201
    /\ \E s \in Slots : reqs[s].op = "onboard" /\ reqs[s].pc = "awaitAssign"

\* C27: on the credit endpoint the account lookup precedes the validation of
\* the amount: a credit whose amount is no number (or NaN, or missing) is
\* answered 404 on an unknown account id and 400 on an existing one, and in
\* both cases the balance map is unchanged.
C27_LookupPrecedesValidation ==
    [][(lastResp'.op = "credit" /\ creditAmountInvalid(lastResp'.amount)) =>
        /\ lastResp'.status =
             IF lastResp'.account \in DOMAIN accountsById THEN 400 ELSE 404
        /\ lastResp'.body = "error"
        /\ balancesByAccountId' = balancesByAccountId
        /\ creditSum' = creditSum
      ]_vars

\* a credit with an invalid amount was answered 404 on an unknown id, other
\* accounts being there
C27_Witness ==
    /\ lastResp.op = "credit" /\ lastResp.status = 404
    /\ creditAmountInvalid(lastResp.amount)
    /\ lastResp.account \notin DOMAIN accountsById
    /\ accountsById # EmptyMap

====
